---- MODULE Spec2Model ----
(***************************************************************************)
(* A model of the terminal chat agent of src/main.py: the session loop     *)
(* (TerminalChat.run), the tool dispatcher (_handle_tool_use), the tool    *)
(* activation commands (_get_user_input) and the five tools.               *)
(*                                                                         *)
(* Text that the code inspects character by character (paths, shell        *)
(* commands, confirmation answers) is a sequence of one-character strings. *)
(* A console line is a sequence of chunks: a chunk is a single space or a  *)
(* maximal run of non-space characters.                                    *)
(***************************************************************************)
EXTENDS Integers, Sequences, FiniteSets, Bags, TLC

VARIABLES
    pc,            \* position of run(): select, input, call, process, done, crashed
    messages,      \* self.messages, the transcript
    active_tools,  \* self.active_tools
    tools,         \* self.tools, the schema list sent with a request (a bag)
    user_input,    \* the last console line read by _get_user_input
    response,      \* the reply of the last model call (None when it failed)
    console,       \* what the last step printed
    calls,         \* number of model calls issued so far
    fs,            \* the file system the tools act on
    last,          \* the last tool execution: its call, outcome and effects
    runs           \* number of tool executions so far

vars == <<pc, messages, active_tools, tools, user_input, response, console,
          calls, fs, last, runs>>

None == "None"

(***************************************************************************)
(* Bounds of the model.                                                    *)
(***************************************************************************)
MaxMsgs == 6
MaxContent == 3
MaxRuns == 2

(***************************************************************************)
(* Character sequences.                                                    *)
(***************************************************************************)
startswith(s, prefix) ==
    /\ Len(prefix) <= Len(s)
    /\ SubSeq(s, 1, Len(prefix)) = prefix

\* Python's `sub in s` on strings
contains(s, sub) ==
    \E i \in 0..(Len(s) - Len(sub)) : SubSeq(s, i + 1, i + Len(sub)) = sub

\* the upper-case characters and chunks that occur in the inputs
UpperToLower ==
    [c \in {"Y", "E", "S", "N", "O", "EXIT", "Quit"} |->
        CASE c = "Y" -> "y" [] c = "E" -> "e" [] c = "S" -> "s"
          [] c = "N" -> "n" [] c = "O" -> "o"
          [] c = "EXIT" -> "exit" [] c = "Quit" -> "quit"]

\* str.lower()
lower(s) ==
    [i \in 1..Len(s) |-> IF s[i] \in DOMAIN UpperToLower THEN UpperToLower[s[i]] ELSE s[i]]

RECURSIVE strip(_)
\* str.strip(): leading and trailing spaces removed
strip(s) ==
    IF s = <<>> THEN s
    ELSE IF s[1] = " " THEN strip(Tail(s))
    ELSE IF s[Len(s)] = " " THEN strip(SubSeq(s, 1, Len(s) - 1))
    ELSE s

RECURSIVE split(_, _)
\* str.split(sep) for a one-character separator: the list of fields
split(s, sep) ==
    IF \A i \in 1..Len(s) : s[i] # sep
    THEN <<s>>
    ELSE LET k == CHOOSE i \in 1..Len(s) :
                     s[i] = sep /\ \A j \in 1..(i - 1) : s[j] # sep
         IN <<SubSeq(s, 1, k - 1)>> \o split(SubSeq(s, k + 1, Len(s)), sep)

RECURSIVE join(_, _)
\* sep.join(parts)
join(parts, sep) ==
    IF parts = <<>> THEN <<>>
    ELSE IF Len(parts) = 1 THEN parts[1]
    ELSE parts[1] \o <<sep>> \o join(Tail(parts), sep)

RECURSIVE replace(_, _, _)
\* str.replace(old, new): every non-overlapping occurrence, left to right
replace(s, old, new) ==
    IF old = <<>>
    THEN IF s = <<>> THEN new
         ELSE new \o <<s[1]>> \o replace(Tail(s), old, new)
    ELSE IF Len(s) < Len(old) THEN s
    ELSE IF startswith(s, old)
         THEN new \o replace(SubSeq(s, Len(old) + 1, Len(s)), old, new)
         ELSE <<s[1]>> \o replace(Tail(s), old, new)

(***************************************************************************)
(* Paths: os.getcwd(), os.path.abspath.                                    *)
(***************************************************************************)
getcwd == <<"/", "w">>

RECURSIVE normcomps(_, _)
\* the component loop of posixpath.normpath for a path with initial slashes
normcomps(comps, new_comps) ==
    IF comps = <<>> THEN new_comps
    ELSE LET comp == comps[1]
             rest == Tail(comps)
         IN IF comp = <<>> \/ comp = <<".">>
            THEN normcomps(rest, new_comps)
            ELSE IF comp # <<".", ".">>
                      \/ (new_comps # <<>> /\ new_comps[Len(new_comps)] = <<".", ".">>)
                 THEN normcomps(rest, Append(new_comps, comp))
                 ELSE IF new_comps # <<>>
                      THEN normcomps(rest, SubSeq(new_comps, 1, Len(new_comps) - 1))
                      ELSE normcomps(rest, new_comps)

\* posixpath.normpath of an absolute path
normpath(path) ==
    LET initial_slashes ==
            IF startswith(path, <<"/", "/">>) /\ ~startswith(path, <<"/", "/", "/">>)
            THEN <<"/", "/">> ELSE <<"/">>
    IN initial_slashes \o join(normcomps(split(path, "/"), <<>>), "/")

\* os.path.abspath
abspath(path) ==
    IF startswith(path, <<"/">>) THEN normpath(path)
    ELSE normpath(getcwd \o <<"/">> \o path)

\* the guard of list_files and edit_file: the path is refused
not_allowed(path) == ~startswith(path, getcwd)

\* what "the working directory and its subtree" means for an absolute path
InsideCwd(path) == path = getcwd \/ startswith(path, getcwd \o <<"/">>)

(***************************************************************************)
(* The file system seen by the tools: a function from the absolute paths   *)
(* that exist to nodes.  A node without `perm` makes open() and listdir()  *)
(* raise PermissionError; a file holding the byte "\xff" is not UTF-8.     *)
(***************************************************************************)
Dir(perm) == [kind |-> "dir", content |-> <<>>, perm |-> perm]
File(content, perm) == [kind |-> "file", content |-> content, perm |-> perm]

exists(f, path) == path \in DOMAIN f
isfile(f, path) == path \in DOMAIN f /\ f[path].kind = "file"
isdir(f, path) == path \in DOMAIN f /\ f[path].kind = "dir"

\* os.path.dirname of a normalised absolute path
dirname(path) ==
    LET comps == normcomps(split(path, "/"), <<>>)
    IN IF Len(comps) <= 1 THEN <<"/">>
       ELSE <<"/">> \o join(SubSeq(comps, 1, Len(comps) - 1), "/")

\* os.path.basename of a normalised absolute path
basename(path) ==
    LET comps == normcomps(split(path, "/"), <<>>)
    IN IF comps = <<>> THEN <<>> ELSE comps[Len(comps)]

\* os.listdir: the names of the entries of a directory
listdir(f, path) == {basename(p) : p \in {q \in DOMAIN f : q # path /\ dirname(q) = path}}

is_utf8(content) == \A i \in 1..Len(content) : content[i] # "\\xff"

Ev(op, arg) == <<op, arg>>

\* the outcome of one tool execution
Returned(result, events, f) ==
    [raised |-> None, result |-> result, events |-> events, fs |-> f]
Raised(exc, events, f) ==
    [raised |-> exc, result |-> None, events |-> events, fs |-> f]

Res(kind, arg) == [kind |-> kind, arg |-> arg]

(***************************************************************************)
(* FileReaderTool.read_file                                                *)
(***************************************************************************)
read_file(file_path, f) ==
    LET p == abspath(file_path)   \* the operating system resolves the raw path
    IN IF ~exists(f, p)
       THEN Returned(Res("not_found", file_path), <<Ev("exists", p)>>, f)
       ELSE IF ~isfile(f, p)
       THEN Returned(Res("not_a_file", file_path),
                     <<Ev("exists", p), Ev("isfile", p)>>, f)
       ELSE IF ~f[p].perm
       THEN Returned(Res("permission_denied", file_path),
                     <<Ev("exists", p), Ev("isfile", p), Ev("open_r", p)>>, f)
       ELSE IF ~is_utf8(f[p].content)
       THEN Returned(Res("binary", <<Len(f[p].content)>>),
                     <<Ev("exists", p), Ev("isfile", p), Ev("open_r", p),
                       Ev("open_rb", p)>>, f)
       ELSE Returned(Res("content", f[p].content),
                     <<Ev("exists", p), Ev("isfile", p), Ev("open_r", p)>>, f)

(***************************************************************************)
(* ListFilesTool.list_files                                                *)
(***************************************************************************)
list_entry(f, directory_path, name) ==
    LET full_path == IF directory_path = <<"/">> THEN <<"/">> \o name
                     ELSE directory_path \o <<"/">> \o name
    IN IF isfile(f, full_path)
       THEN <<name, "Size", Len(f[full_path].content)>>
       ELSE <<name, "Directory", 0>>

list_files(path, f) ==
    LET directory_path == abspath(path)
    IN IF not_allowed(directory_path)
       THEN Returned(Res("access_denied", directory_path), <<>>, f)
       ELSE IF ~isdir(f, directory_path)
       THEN Returned(Res("not_a_directory", directory_path),
                     <<Ev("isdir", directory_path)>>, f)
       ELSE IF ~f[directory_path].perm
       THEN Returned(Res("permission_denied", directory_path),
                     <<Ev("isdir", directory_path), Ev("listdir", directory_path)>>, f)
       ELSE Returned(Res("listing",
                         {list_entry(f, directory_path, n) : n \in listdir(f, directory_path)}),
                     <<Ev("isdir", directory_path), Ev("listdir", directory_path)>>, f)

(***************************************************************************)
(* EditFileTool.edit_file                                                  *)
(***************************************************************************)
\* lines 158-172: the file exists (or was just created) in file system g
edit_existing(file_path, old_str, new_str, g, events) ==
    IF ~isfile(g, file_path)
    THEN Returned(Res("not_a_file", file_path), Append(events, Ev("isfile", file_path)), g)
    ELSE IF ~g[file_path].perm
    THEN Returned(Res("permission_denied", file_path),
                  events \o <<Ev("isfile", file_path), Ev("open_r", file_path)>>, g)
    ELSE IF ~is_utf8(g[file_path].content)
    THEN Returned(Res("error_editing", file_path),
                  events \o <<Ev("isfile", file_path), Ev("open_r", file_path)>>, g)
    ELSE Returned(Res("edited", file_path),
                  events \o <<Ev("isfile", file_path), Ev("open_r", file_path),
                              Ev("open_w", file_path)>>,
                  [g EXCEPT ![file_path].content = replace(@, old_str, new_str)])

edit_file(path, old_str, new_str, f) ==
    LET file_path == abspath(path)
        parent == dirname(file_path)
    IN IF not_allowed(file_path)
       THEN Returned(Res("access_denied", file_path), <<>>, f)
       ELSE IF ~exists(f, file_path)
       THEN \* open(file_path, 'w') creates the file
            IF ~isdir(f, parent)
            THEN Returned(Res("error_editing", file_path),
                          <<Ev("exists", file_path), Ev("create", file_path)>>, f)
            ELSE IF ~f[parent].perm
            THEN Returned(Res("permission_denied", file_path),
                          <<Ev("exists", file_path), Ev("create", file_path)>>, f)
            ELSE edit_existing(file_path, old_str, new_str,
                               (file_path :> File(<<>>, TRUE)) @@ f,
                               <<Ev("exists", file_path), Ev("create", file_path)>>)
       ELSE edit_existing(file_path, old_str, new_str, f, <<Ev("exists", file_path)>>)

(***************************************************************************)
(* ExecuteCommandTool.execute_command.  env.answer is the line the user    *)
(* types at the confirmation prompt (EOF when input() raises), env.proc is  *)
(* what subprocess.run does.  A prompt event carries the answer read.      *)
(***************************************************************************)
EOF == <<"EOF">>

unsafe_commands ==
    {<<"r", "m">>, <<"c", "h", "m", "o", "d">>, <<"c", "h", "o", "w", "n">>,
     <<"s", "u", "d", "o">>, <<"k", "i", "l", "l">>,
     <<"r", "e", "b", "o", "o", "t">>, <<"s", "h", "u", "t", "d", "o", "w", "n">>}

is_unsafe(command) == \E cmd \in unsafe_commands : contains(command, cmd)

confirmed_yes(confirmation) == lower(confirmation) = <<"y", "e", "s">>

\* the confirmation is asked before the denylist is looked at
execute_command_prompt_first(command, env, f) ==
    IF env.answer = EOF
    THEN Returned(Res("error_executing", EOF), <<Ev("prompt", env.answer)>>, f)
    ELSE IF ~confirmed_yes(env.answer)
    THEN Returned(Res("cancelled", <<>>), <<Ev("prompt", env.answer)>>, f)
    ELSE IF is_unsafe(command)
    THEN Returned(Res("unsafe_command", <<>>), <<Ev("prompt", env.answer)>>, f)
    ELSE LET events == <<Ev("prompt", env.answer), Ev("subprocess", command)>>
         IN IF env.proc.raises
            THEN Returned(Res("error_executing", <<"OSError">>), events, f)
            ELSE IF env.proc.returncode # 0
            THEN Returned(Res("error_executing", env.proc.stderr), events, f)
            ELSE Returned(Res("stdout", env.proc.stdout), events, f)

execute_command(command, env, f) ==
    IF is_unsafe(command)
    THEN Returned(Res("unsafe_command", <<>>), <<>>, f)
    ELSE IF env.answer = EOF
    THEN Returned(Res("error_executing", EOF), <<Ev("prompt", env.answer)>>, f)
    ELSE IF ~confirmed_yes(env.answer)
    THEN Returned(Res("cancelled", <<>>), <<Ev("prompt", env.answer)>>, f)
    ELSE LET events == <<Ev("prompt", env.answer), Ev("subprocess", command)>>
         IN IF env.proc.raises
            THEN Returned(Res("error_executing", <<"OSError">>), events, f)
            ELSE IF env.proc.returncode # 0
            THEN Returned(Res("error_executing", env.proc.stderr), events, f)
            ELSE Returned(Res("stdout", env.proc.stdout), events, f)

(***************************************************************************)
(* ConvertSmilesToCartesianTool.convert.  Chem.MolFromSmiles returns None  *)
(* for a descriptor it cannot parse, and Chem.AddHs(None) raises.          *)
(***************************************************************************)
ParsableSmiles == {<<"C">>, <<"C", "C", "O">>}

\* None is the empty tuple here, a molecule a non-empty one
MolFromSmiles(smiles) == IF smiles \in ParsableSmiles THEN <<"mol", smiles>> ELSE <<>>

convert(smiles, f) ==
    LET mol == MolFromSmiles(smiles)
    IN IF mol = <<>>
       THEN Raised("ArgumentError", <<>>, f)
       ELSE Returned(Res("xyz", smiles), <<>>, f)

(***************************************************************************)
(* TerminalChat.__init__: the tool map, in insertion order.                *)
(***************************************************************************)
ToolOrder ==
    <<"read_file_tool", "list_files_tool", "edit_file_tool",
      "execute_command_tool", "convert_smiles_to_cartesian_tool">>

Required ==
    [n \in {ToolOrder[i] : i \in DOMAIN ToolOrder} |->
        CASE n = "read_file_tool" -> {"file_path"}
          [] n = "list_files_tool" -> {}
          [] n = "edit_file_tool" -> {"file_path", "old_str", "new_str"}
          [] n = "execute_command_tool" -> {"command"}
          [] n = "convert_smiles_to_cartesian_tool" -> {"smiles"}]

\* the SCHEMA of each tool: its name and its required arguments
tool_map == [n \in DOMAIN Required |-> [name |-> n, required |-> Required[n]]]

\* _setup_tools: one schema per active tool (the list, up to its order)
setup_tools(active) == SetToBag({tool_map[name] : name \in active})

(***************************************************************************)
(* TerminalChat._handle_tool_use up to line 312: the lookup, the match     *)
(* and the tool.  A missing key of tool_call.input raises KeyError.        *)
(***************************************************************************)
NoArgs == [k \in {} |-> <<>>]

missing(tool_call, keys) == keys \ DOMAIN tool_call.input # {}

run_tool(tool_call, f, env) ==
    LET name == tool_call.name
        input == tool_call.input
    IN IF name \notin DOMAIN tool_map
       THEN Raised("KeyError", <<>>, f)                              \* line 272
       ELSE CASE name = "read_file_tool" ->
                   IF missing(tool_call, {"file_path"})
                   THEN Raised("KeyError", <<>>, f)
                   ELSE read_file(input.file_path, f)
              [] name = "list_files_tool" ->
                   list_files(IF "directory_path" \in DOMAIN input
                              THEN input.directory_path ELSE <<".">>, f)
              [] name = "edit_file_tool" ->
                   IF missing(tool_call, {"file_path", "old_str", "new_str"})
                   THEN Raised("KeyError", <<>>, f)
                   ELSE edit_file(input.file_path, input.old_str, input.new_str, f)
              [] name = "execute_command_tool" ->
                   IF missing(tool_call, {"command"})
                   THEN Raised("KeyError", <<>>, f)
                   ELSE execute_command(input.command, env, f)
              [] name = "convert_smiles_to_cartesian_tool" ->
                   IF missing(tool_call, {"smiles"})
                   THEN Raised("KeyError", <<>>, f)
                   ELSE convert(input.smiles, f)
              [] OTHER ->
                   \* case _: prints "Unknown tool", then `result` is unbound
                   Raised("UnboundLocalError", <<>>, f)

(***************************************************************************)
(* The transcript.                                                         *)
(***************************************************************************)
NoId == <<>>

UserTurn(text) == [role |-> "user", type |-> "text", id |-> NoId, body |-> text]
AssistantTurn(text) == [role |-> "assistant", type |-> "text", id |-> NoId, body |-> text]
ToolUseTurn(tool_call) ==
    [role |-> "assistant", type |-> "tool_use", id |-> tool_call.id, body |-> tool_call]
ToolResultTurn(tool_call, result) ==
    [role |-> "user", type |-> "tool_result", id |-> tool_call.id, body |-> result]

\* lines 314-329: the invocation and its result are appended
append_tool_turns(msgs, tool_call, result) ==
    msgs \o <<ToolUseTurn(tool_call), ToolResultTurn(tool_call, result)>>

(***************************************************************************)
(* Console lines (sequences of chunks) and their parsing in                *)
(* _get_user_input.                                                        *)
(***************************************************************************)
is_exit(line) == lower(line) \in {<<"exit">>, <<"quit">>}

is_activate(line) == ~is_exit(line) /\ startswith(line, <<"/activate", " ">>)

is_deactivate(line) ==
    ~is_exit(line) /\ ~is_activate(line) /\ startswith(line, <<"/deactivate", " ">>)

is_command(line) == is_activate(line) \/ is_deactivate(line)

\* user_input.split(" ", 1)[1].strip() of a command line
tool_name_of(line) == strip(SubSeq(line, 3, Len(line)))

\* `tool_name in self.tool_map`: the name is one chunk and a key of the map
in_tool_map(tool_name) == Len(tool_name) = 1 /\ tool_name[1] \in DOMAIN tool_map

\* `tool_name in self.active_tools`
in_active(tool_name, active) == Len(tool_name) = 1 /\ tool_name[1] \in active

\* lines 378-379: the active set after "/activate tool_name"
activate(tool_name, active) ==
    IF in_tool_map(tool_name) THEN active \cup {tool_name[1]} ELSE active

\* a deactivation that toggles: an inactive tool of the map is switched on
deactivate_toggle(tool_name, active) ==
    IF in_active(tool_name, active) THEN active \ {tool_name[1]}
    ELSE IF in_tool_map(tool_name) THEN active \cup {tool_name[1]}
    ELSE active

\* lines 387-388: the active set after "/deactivate tool_name"
deactivate(tool_name, active) ==
    IF in_active(tool_name, active) THEN active \ {tool_name[1]} ELSE active

(***************************************************************************)
(* _select_tools_cli.  The selection line split at its commas: a field is  *)
(* [isdigit, intok, value]: whether strip().isdigit() holds, whether int() *)
(* succeeds (it raises for a digit such as a superscript two), and the     *)
(* integer it gives.                                                       *)
(***************************************************************************)
RECURSIVE add_indices(_, _)
\* lines 421-423: the set after the loop, or the IndexError that ends it
add_indices(indices, active) ==
    IF indices = <<>> THEN [raised |-> FALSE, active |-> active]
    ELSE LET idx == indices[1]
         IN IF idx > Len(ToolOrder) THEN [raised |-> TRUE, active |-> active]
            ELSE add_indices(Tail(indices),
                             active \cup {ToolOrder[IF idx = 0 THEN Len(ToolOrder) ELSE idx]})

select_tools_cli(selection, active) ==
    LET digits == SelectSeq(selection, LAMBDA fld : fld.isdigit)
        indices == [i \in 1..Len(digits) |-> digits[i].value]
        added == add_indices(indices, active)
    IN IF (\E i \in 1..Len(digits) : ~digits[i].intok) \/ added.raised
       THEN DOMAIN tool_map      \* except: all tools are activated
       ELSE added.active

(***************************************************************************)
(* The inputs: what the user types, what the endpoint replies, what the    *)
(* environment of a tool does.                                             *)
(***************************************************************************)
Digit(n) == [isdigit |-> TRUE, intok |-> TRUE, value |-> n]
Fields ==
    {Digit(0), Digit(1), Digit(Len(ToolOrder) + 1)}
        \cup {[isdigit |-> FALSE, intok |-> FALSE, value |-> 0],
              [isdigit |-> TRUE, intok |-> FALSE, value |-> 0]}

Selections == {<<>>} \cup {<<a>> : a \in Fields} \cup {<<a, b>> : a, b \in Fields}

CommandNames == {"read_file_tool", "nope"}

Lines ==
    {<<"hello">>, <<"exit">>, <<"Quit">>,
     <<"/activate", " ", " ", "read_file_tool", " ">>,
     <<"/activate", " ", "read_file_tool", " ", "now">>}
        \cup {<<"/activate", " ", n>> : n \in CommandNames}
        \cup {<<"/deactivate", " ", n>> : n \in CommandNames}

Text(t) == [type |-> "text", text |-> t, id |-> NoId, name |-> None, input |-> NoArgs]
ToolUse(id, name, input) ==
    [type |-> "tool_use", text |-> <<>>, id |-> id, name |-> name, input |-> input]

W == getcwd
Yes == <<"y", "e", "s">>

\* the tool invocations the endpoint may request, with block id `id`
ToolCalls(id) ==
    {ToolUse(id, "read_file_tool", [file_path |-> <<"f">>]),
     ToolUse(id, "read_file_tool", NoArgs),
     ToolUse(id, "list_files_tool", NoArgs),
     ToolUse(id, "edit_file_tool",
             [file_path |-> <<"g">>, old_str |-> <<>>, new_str |-> <<"a">>]),
     ToolUse(id, "execute_command_tool", [command |-> <<"l", "s">>]),
     ToolUse(id, "convert_smiles_to_cartesian_tool", [smiles |-> <<"C">>]),
     ToolUse(id, "convert_smiles_to_cartesian_tool", [smiles |-> <<"?">>]),
     ToolUse(id, "web_search_tool", NoArgs)}

\* the replies to model call number n
Replies(n) ==
    {[stop_reason |-> "end_turn", content |-> <<Text(<<"hi">>)>>],
     [stop_reason |-> "max_tokens", content |-> <<Text(<<"hi">>), Text(<<"there">>)>>]}
        \cup {[stop_reason |-> "tool_use", content |-> <<tc>>] : tc \in ToolCalls(<<n, 1>>)}
        \cup {[stop_reason |-> "tool_use",
               content |-> <<Text(<<"hi">>),
                             ToolUse(<<n, 1>>, "list_files_tool", NoArgs),
                             ToolUse(<<n, 2>>, "read_file_tool", [file_path |-> <<"f">>])>>],
              [stop_reason |-> "tool_use",
               content |-> <<ToolUse(<<n, 1>>, "list_files_tool", NoArgs),
                             ToolUse(<<n, 2>>, "convert_smiles_to_cartesian_tool",
                                     [smiles |-> <<"?">>])>>],
              [stop_reason |-> "tool_use", content |-> <<Text(<<"hi">>)>>]}

NoResponse == [stop_reason |-> None, content |-> <<>>]

Proc(raises, returncode, stdout, stderr) ==
    [raises |-> raises, returncode |-> returncode, stdout |-> stdout, stderr |-> stderr]

Answers == {Yes, <<"Y", "E", "S">>, <<"n", "o">>, <<"y">>, <<>>, EOF}
Procs ==
    {Proc(FALSE, 0, <<"o">>, <<>>), Proc(FALSE, 1, <<>>, <<"e">>), Proc(TRUE, 0, <<>>, <<>>)}

Envs == [answer : Answers, proc : Procs]

\* the environments of the tools run within a session
SessionEnvs ==
    [answer : {Yes, <<"n", "o">>}, proc : {Proc(FALSE, 0, <<"o">>, <<>>)}]

\* the file system at the start of a session
InitFs ==
    (<<"/">> :> Dir(TRUE)) @@ (W :> Dir(TRUE))
      @@ (<<"/", "w", "/", "f">> :> File(<<"a", "b", "a">>, TRUE))
      @@ (<<"/", "w", "/", "d">> :> Dir(TRUE))
      @@ (<<"/", "w", "x">> :> Dir(TRUE))
      @@ (<<"/", "w", "x", "/", "s">> :> File(<<"a">>, TRUE))

Executed(name, input, out) ==
    [name |-> name, input |-> input, raised |-> out.raised, result |-> out.result,
     events |-> out.events]

NoLast == [name |-> None, input |-> NoArgs, raised |-> None, result |-> None,
           events |-> <<>>]

(***************************************************************************)
(* The session: TerminalChat.run.                                          *)
(***************************************************************************)
Init ==
    /\ pc = "select"
    /\ messages = <<>>
    /\ active_tools = {}
    /\ tools = EmptyBag
    /\ user_input = <<>>
    /\ response = NoResponse
    /\ console = <<>>
    /\ calls = 0
    /\ fs = InitFs
    /\ last = NoLast
    /\ runs = 0

\* lines 453-455
SelectTools ==
    /\ pc = "select"
    /\ \E selection \in Selections :
         LET active == select_tools_cli(selection, active_tools)
         IN /\ active_tools' = active
            /\ tools' = setup_tools(active)
    /\ pc' = "input"
    /\ console' = <<"Welcome">>
    /\ UNCHANGED <<messages, user_input, response, calls, fs, last, runs>>

\* lines 372-375 and 460-461: an exit keyword ends the session
ReadExit ==
    /\ pc = "input"
    /\ \E line \in Lines :
         /\ is_exit(line)
         /\ user_input' = line
    /\ console' = <<"Exiting chat.">>
    /\ pc' = "done"
    /\ UNCHANGED <<messages, active_tools, tools, response, calls, fs, last, runs>>

\* an unknown name is reported, but the line is then returned as user text
ReadActivate_fallthrough ==
    /\ pc = "input"
    /\ \E line \in Lines :
         /\ is_activate(line)
         /\ user_input' = line
         /\ LET tool_name == tool_name_of(line)
            IN /\ active_tools' = activate(tool_name, active_tools)
               /\ IF in_tool_map(tool_name)
                  THEN /\ tools' = setup_tools(active_tools')
                       /\ console' = <<"Activated", tool_name>>
                       /\ pc' = "input"
                       /\ UNCHANGED messages
                  ELSE /\ console' = <<"Unknown tool", tool_name>>
                       /\ messages' = Append(messages, UserTurn(line))
                       /\ pc' = "call"
                       /\ UNCHANGED tools
    /\ UNCHANGED <<response, calls, fs, last, runs>>

\* lines 376-384; the recursive call reads the next line
ReadActivate ==
    /\ pc = "input"
    /\ \E line \in Lines :
         /\ is_activate(line)
         /\ user_input' = line
         /\ LET tool_name == tool_name_of(line)
            IN /\ active_tools' = activate(tool_name, active_tools)
               /\ IF in_tool_map(tool_name)
                  THEN /\ tools' = setup_tools(active_tools')
                       /\ console' = <<"Activated", tool_name>>
                  ELSE /\ console' = <<"Unknown tool", tool_name>>
                       /\ UNCHANGED tools
    /\ pc' = "input"
    /\ UNCHANGED <<messages, response, calls, fs, last, runs>>

\* a deactivation that leaves the schema list as it was
ReadDeactivate_stale ==
    /\ pc = "input"
    /\ \E line \in Lines :
         /\ is_deactivate(line)
         /\ user_input' = line
         /\ LET tool_name == tool_name_of(line)
            IN /\ active_tools' = deactivate(tool_name, active_tools)
               /\ console' = IF in_active(tool_name, active_tools)
                             THEN <<"Deactivated", tool_name>>
                             ELSE <<"Tool not active", tool_name>>
    /\ pc' = "input"
    /\ UNCHANGED <<tools, messages, response, calls, fs, last, runs>>

\* lines 385-393; the recursive call reads the next line
ReadDeactivate ==
    /\ pc = "input"
    /\ \E line \in Lines :
         /\ is_deactivate(line)
         /\ user_input' = line
         /\ LET tool_name == tool_name_of(line)
            IN /\ active_tools' = deactivate(tool_name, active_tools)
               /\ IF in_active(tool_name, active_tools)
                  THEN /\ tools' = setup_tools(active_tools')
                       /\ console' = <<"Deactivated", tool_name>>
                  ELSE /\ console' = <<"Tool not active", tool_name>>
                       /\ UNCHANGED tools
    /\ pc' = "input"
    /\ UNCHANGED <<messages, response, calls, fs, last, runs>>

\* lines 394 and 464: any other line becomes a user turn
ReadMessage ==
    /\ pc = "input"
    /\ Len(messages) + 2 <= MaxMsgs
    /\ \E line \in Lines :
         /\ ~is_exit(line) /\ ~is_command(line)
         /\ user_input' = line
         /\ messages' = Append(messages, UserTurn(line))
    /\ console' = <<>>
    /\ pc' = "call"
    /\ UNCHANGED <<active_tools, tools, response, calls, fs, last, runs>>

has_tool_block(reply) ==
    \E i \in DOMAIN reply.content : reply.content[i].type = "tool_use"

\* lines 398-405 and 468: the model call returns a reply
SendReturns ==
    /\ pc = "call"
    /\ \E reply \in Replies(calls + 1) :
         /\ (reply.stop_reason = "tool_use" /\ has_tool_block(reply))
                => Len(messages) + 3 <= MaxMsgs
         /\ response' = reply
    /\ calls' = calls + 1
    /\ console' = <<>>
    /\ pc' = "process"
    /\ UNCHANGED <<messages, active_tools, tools, user_input, fs, last, runs>>

\* a failed call that takes the pending turn back off the transcript
SendFails_drop ==
    /\ pc = "call"
    /\ response' = NoResponse
    /\ calls' = calls + 1
    /\ console' = <<"Error communicating with Claude">>
    /\ messages' = SubSeq(messages, 1, Len(messages) - 1)
    /\ pc' = "input"
    /\ UNCHANGED <<active_tools, tools, user_input, fs, last, runs>>

\* lines 406-408 and 468-470: the transport fails, the exchange ends
SendFails ==
    /\ pc = "call"
    /\ response' = NoResponse
    /\ calls' = calls + 1
    /\ console' = <<"Error communicating with Claude">>
    /\ pc' = "input"
    /\ UNCHANGED <<messages, active_tools, tools, user_input, fs, last, runs>>

RECURSIVE text_of(_)
\* the concatenated text blocks of a reply's content
text_of(content) ==
    IF content = <<>> THEN <<>>
    ELSE (IF content[1].type = "text" THEN content[1].text ELSE <<>>)
            \o text_of(Tail(content))

\* lines 335-342: the last tool-use block of the content
last_tool_call(content) ==
    content[CHOOSE i \in DOMAIN content :
                /\ content[i].type = "tool_use"
                /\ \A j \in DOMAIN content : content[j].type = "tool_use" => j <= i]

\* lines 333-351 and 270-329: a tool request is dispatched
HandleToolUse ==
    /\ pc = "process"
    /\ response.stop_reason = "tool_use"
    /\ has_tool_block(response)
    /\ LET tool_call == last_tool_call(response.content)
       IN \E env \in SessionEnvs :
            LET out == run_tool(tool_call, fs, env)
            IN /\ fs' = out.fs
               /\ last' = Executed(tool_call.name, tool_call.input, out)
               /\ runs' = runs + 1
               /\ IF out.raised # None
                  THEN \* the exception leaves run(): the process ends
                       /\ pc' = "crashed"
                       /\ console' = <<"Traceback", out.raised>>
                       /\ UNCHANGED messages
                  ELSE /\ messages' = append_tool_turns(messages, tool_call, out.result)
                       /\ console' = <<"tool", tool_call.name>>
                       /\ pc' = "call"
    /\ UNCHANGED <<active_tools, tools, user_input, response, calls>>

\* lines 333-349 and 368: a tool-request reply without a tool-use block
ToolUseWithoutBlock ==
    /\ pc = "process"
    /\ response.stop_reason = "tool_use"
    /\ ~has_tool_block(response)
    /\ console' = <<"Claude", text_of(response.content)>>
    /\ pc' = "input"
    /\ UNCHANGED <<messages, active_tools, tools, user_input, response, calls, fs, last, runs>>

\* a plain reply after which the inner loop goes on
ProcessText_continue ==
    /\ pc = "process"
    /\ response.stop_reason # "tool_use"
    /\ LET ai_message == text_of(response.content)
       IN /\ messages' = Append(messages, AssistantTurn(ai_message))
          /\ console' = <<"Claude", ai_message>>
    /\ pc' = IF Len(messages) + 2 <= MaxMsgs THEN "call" ELSE "input"
    /\ UNCHANGED <<active_tools, tools, user_input, response, calls, fs, last, runs>>

\* lines 352-368: a plain reply becomes an assistant turn
ProcessText ==
    /\ pc = "process"
    /\ response.stop_reason # "tool_use"
    /\ LET ai_message == text_of(response.content)
       IN /\ messages' = Append(messages, AssistantTurn(ai_message))
          /\ console' = <<"Claude", ai_message>>
    /\ pc' = "input"
    /\ UNCHANGED <<active_tools, tools, user_input, response, calls, fs, last, runs>>

Next ==
    \/ SelectTools
    \/ ReadExit
    \/ ReadActivate
    \/ ReadDeactivate
    \/ ReadMessage
    \/ SendReturns
    \/ SendFails
    \/ HandleToolUse
    \/ ToolUseWithoutBlock
    \/ ProcessText

Spec == Init /\ [][Next]_vars

(***************************************************************************)
(* The tools on their own: each tool is a static method, applied here to   *)
(* wider sets of arguments and file systems than a session draws.          *)
(***************************************************************************)
ToolPaths ==
    {<<".">>, <<"f">>, <<"d">>, <<"n">>, <<"d", "/", "n">>, <<".", ".">>,
     <<"/">>, <<"/", "/", "w">>, <<"/", "w", "/", ".", "/", "f">>,
     <<"/", "w", "x">>, <<"/", "w", "x", "/", "s">>, <<"/", "w", "x", "/", "n">>,
     <<".", ".", "/", "w", "x">>, <<"/", "v", "/", "n">>}

ToolEdits == {<<<<"a">>, <<"b">>>>, <<<<>>, <<"c">>>>, <<<<"a", "b">>, <<>>>>}

ToolCommands ==
    {<<"l", "s">>, <<"r", "m", " ", "f">>, <<"f", "a", "r", "m">>,
     <<"s", "u", "d", "o", " ", "l", "s">>, <<"R", "M">>}

ToolSmiles == {<<"C">>, <<"C", "C", "O">>, <<"?">>, <<"C", "(">>}

ToolFss ==
    {InitFs,
     (<<"/", "w", "/", "d">> :> Dir(FALSE)) @@ InitFs,
     (<<"/", "w", "/", "f">> :> File(<<"a", "\\xff">>, TRUE)) @@ InitFs,
     (<<"/", "w", "/", "f">> :> File(<<"a">>, FALSE)) @@ InitFs}

InitTools ==
    /\ pc = "tools"
    /\ messages = <<>>
    /\ active_tools = {}
    /\ tools = EmptyBag
    /\ user_input = <<>>
    /\ response = NoResponse
    /\ console = <<>>
    /\ calls = 0
    /\ fs \in ToolFss
    /\ last = NoLast
    /\ runs = 0

ToolReadFile ==
    /\ pc = "tools"
    /\ runs < MaxRuns
    /\ runs' = runs + 1
    /\ \E path \in ToolPaths :
         LET out == read_file(path, fs)
         IN /\ fs' = out.fs
            /\ last' = Executed("read_file_tool", [file_path |-> path], out)
    /\ UNCHANGED <<pc, messages, active_tools, tools, user_input, response, console, calls>>

ToolListFiles ==
    /\ pc = "tools"
    /\ runs < MaxRuns
    /\ runs' = runs + 1
    /\ \E path \in ToolPaths :
         LET out == list_files(path, fs)
         IN /\ fs' = out.fs
            /\ last' = Executed("list_files_tool", [directory_path |-> path], out)
    /\ UNCHANGED <<pc, messages, active_tools, tools, user_input, response, console, calls>>

ToolEditFile ==
    /\ pc = "tools"
    /\ runs < MaxRuns
    /\ runs' = runs + 1
    /\ \E path \in ToolPaths, e \in ToolEdits :
         LET out == edit_file(path, e[1], e[2], fs)
         IN /\ \A p \in DOMAIN out.fs : Len(out.fs[p].content) <= MaxContent
            /\ fs' = out.fs
            /\ last' = Executed("edit_file_tool",
                                [file_path |-> path, old_str |-> e[1], new_str |-> e[2]],
                                out)
    /\ UNCHANGED <<pc, messages, active_tools, tools, user_input, response, console, calls>>

ToolExecuteCommand ==
    /\ pc = "tools"
    /\ runs < MaxRuns
    /\ runs' = runs + 1
    /\ \E command \in ToolCommands, env \in Envs :
         LET out == execute_command(command, env, fs)
         IN /\ fs' = out.fs
            /\ last' = Executed("execute_command_tool", [command |-> command], out)
    /\ UNCHANGED <<pc, messages, active_tools, tools, user_input, response, console, calls>>

ToolConvert ==
    /\ pc = "tools"
    /\ runs < MaxRuns
    /\ runs' = runs + 1
    /\ \E smiles \in ToolSmiles :
         LET out == convert(smiles, fs)
         IN /\ fs' = out.fs
            /\ last' = Executed("convert_smiles_to_cartesian_tool", [smiles |-> smiles], out)
    /\ UNCHANGED <<pc, messages, active_tools, tools, user_input, response, console, calls>>

NextTools ==
    \/ ToolReadFile
    \/ ToolListFiles
    \/ ToolEditFile
    \/ ToolExecuteCommand
    \/ ToolConvert

SpecTools == InitTools /\ [][NextTools]_vars

(***************************************************************************)
(* The claims.                                                             *)
(***************************************************************************)
Handling ==
    pc = "process" /\ response.stop_reason = "tool_use" /\ has_tool_block(response)

\* every invocation turn is directly followed by the result turn of the same id,
\* every result turn directly follows its invocation, and no id occurs twice
Paired(msgs) ==
    /\ \A i \in DOMAIN msgs :
         msgs[i].type = "tool_use" =>
            /\ i < Len(msgs)
            /\ msgs[i + 1].type = "tool_result"
            /\ msgs[i + 1].id = msgs[i].id
    /\ \A i \in DOMAIN msgs :
         msgs[i].type = "tool_result" => i > 1 /\ msgs[i - 1].type = "tool_use"
    /\ \A i, j \in DOMAIN msgs :
         (msgs[i].type = "tool_use" /\ msgs[j].type = "tool_use" /\ msgs[i].id = msgs[j].id)
            => i = j

\* C1: every invocation handed to the dispatcher gets exactly one result turn,
\* appended right after the assistant turn carrying it and with its id, before
\* the next model call; a model call is issued only with every invocation paired.
C1_RoundTrip ==
    [][/\ Handling =>
            /\ Len(messages') = Len(messages) + 2
            /\ SubSeq(messages', 1, Len(messages)) = messages
            /\ messages'[Len(messages) + 1].role = "assistant"
            /\ messages'[Len(messages) + 1].type = "tool_use"
            /\ messages'[Len(messages) + 1].id = last_tool_call(response.content).id
            /\ messages'[Len(messages) + 2].role = "user"
            /\ messages'[Len(messages) + 2].type = "tool_result"
            /\ messages'[Len(messages) + 2].id = last_tool_call(response.content).id
            /\ calls' = calls
       /\ calls' # calls => Paired(messages)]_vars

\* C2: a request for a tool that is not in the tool map prints an error, appends
\* nothing to the transcript and leaves the session running.
C2_UnknownToolSurvives ==
    [][(Handling /\ last_tool_call(response.content).name \notin DOMAIN tool_map) =>
            /\ console' = <<"Unknown tool", last_tool_call(response.content).name>>
            /\ messages' = messages
            /\ pc' \in {"call", "input"}]_vars

\* C3: a model call that fails in transport ends the exchange: the session waits
\* for the next user line, and the transcript is as it was, a user turn last.
C3_TransportFailure ==
    [][(pc = "call" /\ response' = NoResponse) =>
            /\ messages' = messages
            /\ Len(messages') > 0
            /\ messages'[Len(messages')].role = "user"
            /\ pc' = "input"]_vars

C3_Witness ==
    /\ pc = "input"
    /\ response = NoResponse
    /\ console = <<"Error communicating with Claude">>
    /\ calls = 2
    /\ Len(messages) = 3
    /\ messages[3].type = "tool_result"

\* C4: no invocation of one of the five tools raises out of the dispatcher: the
\* failure of a tool is a result string.
C4_ToolsNeverRaise ==
    last.name \in DOMAIN tool_map => (last.raised = None /\ pc # "crashed")

\* the path argument of a list_files or edit_file execution
PathOf(exec) ==
    IF exec.name = "edit_file_tool" THEN exec.input.file_path
    ELSE IF "directory_path" \in DOMAIN exec.input THEN exec.input.directory_path
    ELSE <<".">>

\* C5: list_files and edit_file answer a path outside the working directory and
\* its subtree with access denied, and touch nothing on the file system.
C5_OutsideIsDenied ==
    (last.name \in {"list_files_tool", "edit_file_tool"}
        /\ ~InsideCwd(abspath(PathOf(last))))
      => (last.result.kind = "access_denied" /\ last.events = <<>>)

\* C6: execute_command refuses a command holding a denylisted name without a
\* prompt and without a subprocess; a subprocess starts only as the second
\* effect, after a prompt answered yes (in any letter case), and only for a
\* command that passed the denylist.
C6_DenylistThenConfirm ==
    last.name = "execute_command_tool" =>
        LET command == last.input.command
            denylisted == \E cmd \in unsafe_commands : contains(command, cmd)
        IN /\ denylisted =>
                (last.events = <<>> /\ last.result.kind = "unsafe_command")
           /\ \A i \in DOMAIN last.events :
                last.events[i][1] = "subprocess" =>
                    /\ ~denylisted
                    /\ i = 2
                    /\ last.events[1][1] = "prompt"
                    /\ lower(last.events[1][2]) = Yes

C6_Witness ==
    /\ last.name = "execute_command_tool"
    /\ last.input.command = <<"l", "s">>
    /\ last.events = <<Ev("prompt", <<"Y", "E", "S">>), Ev("subprocess", <<"l", "s">>)>>
    /\ last.result.kind = "stdout"

\* C7: a plain reply appends exactly one assistant turn holding the reply text,
\* issues no further model call and returns to reading a user line; from there a
\* model call follows only a new user turn.
C7_PlainReply ==
    [][/\ (pc = "process" /\ response.stop_reason # "tool_use") =>
            /\ Len(messages') = Len(messages) + 1
            /\ SubSeq(messages', 1, Len(messages)) = messages
            /\ messages'[Len(messages')].role = "assistant"
            /\ messages'[Len(messages')].type = "text"
            /\ messages'[Len(messages')].body = text_of(response.content)
            /\ calls' = calls
            /\ pc' = "input"
       /\ (pc = "input" /\ pc' = "call") =>
            /\ calls' = calls
            /\ Len(messages') = Len(messages) + 1
            /\ messages'[Len(messages')].role = "user"
            /\ messages'[Len(messages')].body = user_input'
       /\ calls' # calls => pc = "call"]_vars

C7_Witness ==
    /\ pc = "input"
    /\ response.stop_reason = "max_tokens"
    /\ Len(messages) = 2
    /\ messages[2].role = "assistant"
    /\ messages[2].body = <<"hi", "there">>
    /\ calls = 1

\* C8: /activate for an active tool and /deactivate for a tool that is not active
\* leave the active set unchanged, and a command repeated right after itself
\* changes nothing: twice gives the same active set as once.
C8_Idempotent ==
    [][/\ (pc = "input" /\ is_activate(user_input')
              /\ in_active(tool_name_of(user_input'), active_tools))
            => active_tools' = active_tools
       /\ (pc = "input" /\ is_deactivate(user_input')
              /\ ~in_active(tool_name_of(user_input'), active_tools))
            => active_tools' = active_tools
       /\ (pc = "input" /\ is_command(user_input) /\ user_input' = user_input)
            => active_tools' = active_tools]_vars

C8_Witness ==
    /\ pc = "input"
    /\ user_input = <<"/deactivate", " ", "read_file_tool">>
    /\ console = <<"Tool not active", <<"read_file_tool">>>>
    /\ active_tools = DOMAIN tool_map \ {"read_file_tool"}

\* C9: an /activate or /deactivate naming a tool that is not in the tool map
\* prints an error and changes nothing: active set, schema list and transcript
\* stay, and no model call is issued for the line.
C9_UnknownNameNoChange ==
    [][(pc = "input" /\ is_command(user_input')
            /\ ~in_tool_map(tool_name_of(user_input'))) =>
            /\ active_tools' = active_tools
            /\ tools' = tools
            /\ messages' = messages
            /\ calls' = calls
            /\ pc' = "input"
            /\ console'[1] \in {"Unknown tool", "Tool not active"}]_vars

C9_Witness ==
    /\ pc = "input"
    /\ user_input = <<"/activate", " ", "nope">>
    /\ console = <<"Unknown tool", <<"nope">>>>
    /\ active_tools = {"read_file_tool"}

\* C10: at every model call the schema list holds the schema of each active tool
\* exactly once and no schema of an inactive tool.
C10_SchemasMatchActive ==
    pc = "call" =>
        /\ \A n \in DOMAIN tool_map :
             CopiesIn(tool_map[n], tools) = IF n \in active_tools THEN 1 ELSE 0
        /\ BagToSet(tools) \subseteq {tool_map[n] : n \in DOMAIN tool_map}

C10_Witness ==
    /\ pc = "call"
    /\ user_input = <<"hello">>
    /\ active_tools = DOMAIN tool_map \ {"read_file_tool"}
    /\ BagCardinality(tools) = Cardinality(active_tools)

\* the step appends the invocation turn of block tc and its result turn
PairAppended(tc) ==
    /\ Len(messages') = Len(messages) + 2
    /\ SubSeq(messages', 1, Len(messages)) = messages
    /\ messages'[Len(messages) + 1].role = "assistant"
    /\ messages'[Len(messages) + 1].type = "tool_use"
    /\ messages'[Len(messages) + 1].id = tc.id
    /\ messages'[Len(messages) + 1].body.name = tc.name
    /\ messages'[Len(messages) + 2].role = "user"
    /\ messages'[Len(messages) + 2].type = "tool_result"
    /\ messages'[Len(messages) + 2].id = tc.id

\* the places of the tool-use blocks of a reply
ToolBlocks(reply) == {i \in DOMAIN reply.content : reply.content[i].type = "tool_use"}

\* the tool-use block that stands last in a reply
LastBlock(reply) ==
    reply.content[CHOOSE i \in ToolBlocks(reply) : \A j \in ToolBlocks(reply) : j <= i]

\* C11: the dispatcher consults the tool map, not the active set: an invocation
\* of a tool of the tool map that is not active is executed all the same, and
\* its invocation/result pair is appended.
C11_InactiveToolDispatched ==
    [][(Handling /\ LastBlock(response).name \in DOMAIN tool_map
            /\ LastBlock(response).name \notin active_tools) =>
            /\ runs' = runs + 1
            /\ last'.name = LastBlock(response).name
            /\ PairAppended(LastBlock(response))
            /\ pc' = "call"]_vars

\* whenever the dispatcher returns, an inactive tool of the tool map has run and
\* its pair is appended: the active set plays no part in the dispatch
InactiveToolAppendedOnReturn ==
    [][(Handling /\ LastBlock(response).name \in DOMAIN tool_map
            /\ LastBlock(response).name \notin active_tools
            /\ pc' # "crashed") =>
            /\ runs' = runs + 1
            /\ last'.name = LastBlock(response).name
            /\ PairAppended(LastBlock(response))
            /\ pc' = "call"]_vars

ProcessingToolReply == pc = "process" /\ response.stop_reason = "tool_use"

\* C12: of a tool-request reply with several tool-use blocks only the last block
\* is dispatched and exactly one invocation/result pair is appended for the
\* reply; a tool-request reply without a tool-use block appends nothing and ends
\* the exchange without a further model call.
C12_LastBlockOnly ==
    [][/\ (ProcessingToolReply /\ Cardinality(ToolBlocks(response)) > 1) =>
            /\ runs' = runs + 1
            /\ last'.name = LastBlock(response).name
            /\ last'.input = LastBlock(response).input
            /\ PairAppended(LastBlock(response))
            /\ pc' = "call"
       /\ (ProcessingToolReply /\ ToolBlocks(response) = {}) =>
            /\ messages' = messages
            /\ runs' = runs
            /\ calls' = calls
            /\ pc' = "input"]_vars

\* whenever the dispatcher returns, the last block alone was dispatched and one
\* pair appended; a reply without a block appends nothing and ends the exchange
LastBlockOnlyOnReturn ==
    [][/\ (ProcessingToolReply /\ Cardinality(ToolBlocks(response)) > 1
              /\ pc' # "crashed") =>
            /\ runs' = runs + 1
            /\ last'.name = LastBlock(response).name
            /\ last'.input = LastBlock(response).input
            /\ PairAppended(LastBlock(response))
            /\ pc' = "call"
       /\ (ProcessingToolReply /\ ToolBlocks(response) = {}) =>
            /\ messages' = messages
            /\ runs' = runs
            /\ calls' = calls
            /\ pc' = "input"]_vars

====
